---- MODULE Spec2Model ----
(***************************************************************************)
(* Model of plat/rpi/rpi4/rpi4_bl31_setup.c: the BL31 boot sequence of the *)
(* Raspberry Pi 4 port (early setup, translation-table setup, device-tree  *)
(* patching, GIC bring-up, handler registration) and the EL3 mailbox       *)
(* interrupt handler generic_mb_interrupt_handler.                         *)
(*                                                                         *)
(* Fixed-width unsigned values (uint32_t, unsigned long long) are kept as  *)
(* sequences of base-256 digits, most significant digit first, so that     *)
(* 0x10000000 is <<16, 0, 0, 0>>.  The model checker's own integers are    *)
(* signed 32-bit, which cannot hold 2,200,000,000 or 0xFFFFFFFF.           *)
(***************************************************************************)
EXTENDS Integers, Sequences, FiniteSets, TLC

VARIABLES
    pc,               \* position of the boot CPU in the BL31 boot sequence
    stub_magic,       \* armstub8.bin field: 0 once the GPU firmware confirmed it
    dtb_ptr32,        \* armstub8.bin field: device-tree address (u32 digits)
    kernel_entry32,   \* armstub8.bin field: kernel entry address (u32 digits)
    bl33_image_ep_info, \* non-secure entry-point descriptor
    bl32_image_ep_info, \* secure entry-point descriptor (never populated)
    mmap,             \* regions handed to mmap_add_region, in call order
    mmu_enabled,      \* enable_mmu_el3 has run
    dtb,              \* the device-tree blob
    fdt_fails,        \* the libfdt / fixup calls that fail in this boot
    fdt_calls,        \* device-tree calls made by rpi4_prepare_dtb, in order
    log,              \* ERROR / WARN / INFO lines printed by the boot sequence
    gic,              \* GICv2 driver / distributor / CPU interface state
    handler,          \* register_interrupt_type_handler has run
    mbox,             \* ARM-local mailbox register at 0xFF8000C0 (u32 digits)
    pcc,              \* the two PCC regions at 0x1f0000 and 0x1f0080
    irq_line,         \* raw GICC_IAR value of the pending interrupt, or NoIrq
    calls,            \* MMIO / RPC / memory-write trace of the latest handler run
    requests,         \* number of requests posted so far
    vc_calls          \* co-processor RPCs issued by bl31_platform_setup

vars == <<pc, stub_magic, dtb_ptr32, kernel_entry32, bl33_image_ep_info,
          bl32_image_ep_info, mmap, mmu_enabled, dtb, fdt_fails, fdt_calls,
          log, gic, handler, mbox, pcc, irq_line, calls, requests, vc_calls>>

bootVars == <<pc, stub_magic, dtb_ptr32, kernel_entry32, bl33_image_ep_info,
              bl32_image_ep_info, mmap, mmu_enabled, dtb, fdt_fails,
              fdt_calls, log, gic, handler, vc_calls>>

-----------------------------------------------------------------------------
(* Fixed-width unsigned arithmetic on base-256 digit sequences (MSB first). *)

Rev(s) == [i \in 1..Len(s) |-> s[Len(s) + 1 - i]]

\* The uint32_t whose value is the natural number n (n below 2^31).
U32(n) == <<(n \div 16777216) % 256, (n \div 65536) % 256, (n \div 256) % 256, n % 256>>

\* Zero-extension of a uint32_t to unsigned long long.
U64(a) == <<0, 0, 0, 0>> \o a

Zero(n) == [i \in 1..n |-> 0]

IsZero(a) == \A i \in 1..Len(a) : a[i] = 0

RECURSIVE LtFrom(_, _, _)
LtFrom(a, b, i) ==
    IF i > Len(a) THEN FALSE
    ELSE IF a[i] # b[i] THEN a[i] < b[i]
    ELSE LtFrom(a, b, i + 1)

\* a < b, for two values of the same width.
Lt(a, b) == LtFrom(a, b, 1)
Le(a, b) == ~Lt(b, a)

\* Bit n (0 = least significant) of a.
Bit(a, n) == (a[Len(a) - (n \div 8)] \div (2 ^ (n % 8))) % 2 = 1

RECURSIVE ByteAnd(_, _, _)
ByteAnd(x, y, n) ==
    IF n = 0 THEN 0
    ELSE (x % 2) * (y % 2) + 2 * ByteAnd(x \div 2, y \div 2, n - 1)

\* Bitwise AND / AND-NOT of two values of the same width.
And(a, b) == [i \in 1..Len(a) |-> ByteAnd(a[i], b[i], 8)]
AndNot(a, b) == [i \in 1..Len(a) |-> ByteAnd(a[i], 255 - b[i], 8)]

RECURSIVE ColSum(_, _, _, _)
ColSum(A, B, k, i) ==
    IF i > k THEN 0
    ELSE (IF i < Len(A) /\ k - i < Len(B) THEN A[i + 1] * B[k - i + 1] ELSE 0)
         + ColSum(A, B, k, i + 1)

RECURSIVE MulCols(_, _, _, _, _)
MulCols(A, B, k, carry, n) ==
    IF k = n THEN <<>>
    ELSE LET s == carry + ColSum(A, B, k, 0)
         IN  <<s % 256>> \o MulCols(A, B, k + 1, s \div 256, n)

\* The full product of a and b, Len(a) + Len(b) digits wide (nothing is lost).
MulWide(a, b) == Rev(MulCols(Rev(a), Rev(b), 0, 0, Len(a) + Len(b)))

\* uint32_t multiplication: the low 32 bits of the product.
Mul32(a, b) == SubSeq(MulWide(a, b), 5, 8)

RECURSIVE DivFrom(_, _, _, _)
DivFrom(a, d, i, rem) ==
    IF i > Len(a) THEN <<>>
    ELSE LET cur == rem * 256 + a[i]
         IN  <<cur \div d>> \o DivFrom(a, d, i + 1, cur % d)

\* Unsigned division of a by the natural number d (d below 2^23).
DivNat(a, d) == DivFrom(a, d, 1, 0)

RECURSIVE AddCols(_, _, _, _)
AddCols(A, B, i, carry) ==
    IF i > Len(A) THEN <<>>
    ELSE LET s == A[i] + B[i] + carry
         IN  <<s % 256>> \o AddCols(A, B, i + 1, s \div 256)

\* Addition of two values of the same width, wrapping at that width.
Add(a, b) == Rev(AddCols(Rev(a), Rev(b), 1, 0))

-----------------------------------------------------------------------------
(* Byte-order conversions.                                                 *)

\* le32enc(): the four bytes stored at increasing addresses.
le32enc(v) == <<v[4], v[3], v[2], v[1]>>

-----------------------------------------------------------------------------
(* Platform constants.                                                     *)

SECURE_TRIGGER == 32

NoIrq == 0 - 1

\* plat_ic_get_interrupt_id(): the interrupt id is the low ten bits of IAR.
plat_ic_get_interrupt_id(irq) == irq % 1024

MBOX_REG == <<255, 128, 0, 192>>       \* 0xFF800000 + 0xc0
PERF_REG == <<254, 0, 48, 4>>          \* 0xFE003004
PCC0 == <<0, 31, 0, 0>>                \* 0x1f0000
PCC1 == <<0, 31, 0, 128>>              \* 0x1f0080
SIG0 == <<80, 67, 67, 0>>              \* 0x50434300
SIG1 == <<80, 67, 67, 1>>              \* 0x50434301

Idle(sig, com) == [Signature |-> sig, Command |-> 0, Status |-> 1, ComSpace |-> com]

-----------------------------------------------------------------------------
(* generic_mb_interrupt_handler.  The handler runs to completion on the    *)
(* single boot CPU; h carries the memory it touches and the trace of what  *)
(* it did: h.mbox is the mailbox register, h.pcc the two PCC regions and   *)
(* h.calls the MMIO accesses, RPCs, log lines and memory writes so far.    *)

Ev(op, arg, val) == [op |-> op, arg |-> arg, val |-> val]

Emit(h, op, arg, val) == [h EXCEPT !.calls = Append(@, Ev(op, arg, val))]

\* mmio_write_32() on the mailbox read/clear register: the bits written as 1
\* are cleared (line 294 writes back what line 293 read).
mmio_write_mbox(h, val) ==
    Emit([h EXCEPT !.mbox = AndNot(@, val)], "mmio_write_32", MBOX_REG, val)

\* pcc_region->Signature = sig; ->Command = 0; ->Status = 0x1;
SetIdle(h, region, sig) ==
    LET h1 == Emit([h  EXCEPT !.pcc[region].Signature = sig], "Signature", region, sig)
        h2 == Emit([h1 EXCEPT !.pcc[region].Command = 0], "Command", region, 0)
    IN  Emit([h2 EXCEPT !.pcc[region].Status = 1], "Status", region, 1)

\* le32enc(&pcc_region->ComSpace[off], v)
StoreCom(h, region, off, v) ==
    Emit([h EXCEPT !.pcc[region].ComSpace =
              [i \in 1..8 |-> IF i > off /\ i <= off + 4 THEN le32enc(v)[i - off] ELSE @[i]]],
         "le32enc", <<region, off>>, v)

\* ClockRate /= 100000000 (two exact floor divisions by 10^4, as 10^8 = 10^4 * 10^4)
Div100MHz(rate) == DivNat(DivNat(rate, 10000), 10000)

\* A variant that takes the first region's request from bit 27.
PccRegion1OnBit27(h, mbox_val, perf, rate) ==
    IF Bit(mbox_val, 27)
    THEN LET h0 == Emit(h, "read Command", PCC0, h.pcc[PCC0].Command)
             h1 == IF h.pcc[PCC0].Command = 0
                   THEN LET a == Emit(h0, "mmio_read_32", PERF_REG, perf)
                            b == Emit(a, "rpi4_vc_get_clock", 0, rate)
                            c == StoreCom(b, PCC0, 0, perf)
                            ClockRate == Div100MHz(rate)
                            counter == DivNat(Mul32(perf, ClockRate), 15)
                        IN  StoreCom(c, PCC0, 4, counter)
                   ELSE Emit(h0, "ERROR", PCC0, h.pcc[PCC0])
         IN  SetIdle(h1, PCC0, SIG0)
    ELSE h

\* Lines 296-320: "if (mbox_val & 0x10000000) { //region 1".
PccRegion1(h, mbox_val, perf, rate) ==
    IF Bit(mbox_val, 28)
    THEN LET h0 == Emit(h, "read Command", PCC0, h.pcc[PCC0].Command)
             h1 == IF h.pcc[PCC0].Command = 0
                   THEN LET a == Emit(h0, "mmio_read_32", PERF_REG, perf)
                            b == Emit(a, "rpi4_vc_get_clock", 0, rate)
                            c == StoreCom(b, PCC0, 0, perf)
                            ClockRate == Div100MHz(rate)
                            counter == DivNat(Mul32(perf, ClockRate), 15)
                        IN  StoreCom(c, PCC0, 4, counter)
                   ELSE Emit(h0, "ERROR", PCC0, h.pcc[PCC0])
         IN  SetIdle(h1, PCC0, SIG0)
    ELSE h

\* A variant that takes the second region's request from bit 28.
PccRegion2OnBit28(h, mbox_val) ==
    IF Bit(mbox_val, 28)
    THEN LET a == Emit(h, "rpi4_vc_get_pwm", 0, 0)
             b == Emit(a, "ERROR", PCC1, a.pcc[PCC1])
         IN  SetIdle(b, PCC1, SIG1)
    ELSE h

\* A variant that asks for the PWM value only on a read request.
PccRegion2ReadsOnly(h, mbox_val) ==
    IF Bit(mbox_val, 29)
    THEN LET a == IF h.pcc[PCC1].Command = 0 THEN Emit(h, "rpi4_vc_get_pwm", 0, 0) ELSE h
             b == Emit(a, "ERROR", PCC1, a.pcc[PCC1])
         IN  SetIdle(b, PCC1, SIG1)
    ELSE h

\* Lines 321-332: "if (mbox_val & 0x20000000) { //region 2".
PccRegion2(h, mbox_val) ==
    IF Bit(mbox_val, 29)
    THEN LET a == Emit(h, "rpi4_vc_get_pwm", 0, 0)
             b == Emit(a, "ERROR", PCC1, a.pcc[PCC1])
         IN  SetIdle(b, PCC1, SIG1)
    ELSE h

\* A variant without the lower limit.
ClampMHzUpperOnly(mbox_val) ==
    IF Lt(U32(2200), mbox_val) THEN U32(2200) ELSE mbox_val

\* Lines 339-343: the requested MHz value clamped to 600..2200.
ClampMHz(mbox_val) ==
    IF Lt(U32(2200), mbox_val) THEN U32(2200)
    ELSE IF Lt(mbox_val, U32(600)) THEN U32(600)
    ELSE mbox_val

\* Line 345: mbox_val*1000000 in uint32_t arithmetic.
ClockHz(mhz) == Mul32(mhz, U32(1000000))

\* Line 335: mbox_val & 0xFF
FanDuty(mbox_val) == And(mbox_val, U32(255))

\* A variant whose clock branch is not an else branch.
FanThenClock(h, mbox_val) ==
    LET a == IF Bit(mbox_val, 30)
             THEN Emit(Emit(h, "rpi4_vc_set_pwm", 0, FanDuty(mbox_val)),
                       "INFO", "Fan speed", FanDuty(mbox_val))
             ELSE h
    IN  Emit(a, "rpi4_vc_set_clock", 0, ClockHz(ClampMHz(mbox_val)))

\* Lines 333-346: fan speed when bit 30 is set, clock otherwise.
FanOrClock(h, mbox_val) ==
    IF Bit(mbox_val, 30)
    THEN LET a == Emit(h, "rpi4_vc_set_pwm", 0, FanDuty(mbox_val))
         IN  Emit(a, "INFO", "Fan speed", FanDuty(mbox_val))
    ELSE Emit(h, "rpi4_vc_set_clock", 0, ClockHz(ClampMHz(mbox_val)))

\* A variant without the closing reset.
FinalIdleSkipped(h) == h

\* Lines 347-356: both regions are written idle again.
FinalIdle(h) == SetIdle(SetIdle(h, PCC0, SIG0), PCC1, SIG1)

\* A variant that reads the status register again for its decisions.
SecureTriggerReRead(h, perf, rate) ==
    LET mbox_val == h.mbox
        a == Emit(h, "mmio_read_32", MBOX_REG, mbox_val)
        b == mmio_write_mbox(a, mbox_val)
        c == PccRegion1(b, b.mbox, perf, rate)
        d == PccRegion2(c, b.mbox)
        e == FanOrClock(d, b.mbox)
    IN  FinalIdle(e)

\* A variant that serves the region at 0x1f0080 first.
SecureTriggerRegion2First(h, perf, rate) ==
    LET mbox_val == h.mbox
        a == Emit(h, "mmio_read_32", MBOX_REG, mbox_val)
        b == mmio_write_mbox(a, mbox_val)
        c == PccRegion2(b, mbox_val)
        d == PccRegion1(c, mbox_val, perf, rate)
        e == FanOrClock(d, mbox_val)
    IN  FinalIdle(e)

\* Lines 291-358: the body run for the secure trigger.
SecureTrigger(h, perf, rate) ==
    LET mbox_val == h.mbox
        a == Emit(h, "mmio_read_32", MBOX_REG, mbox_val)
        b == mmio_write_mbox(a, mbox_val)
        c == PccRegion1(b, mbox_val, perf, rate)
        d == PccRegion2(c, mbox_val)
        e == FanOrClock(d, mbox_val)
    IN  FinalIdle(e)

\* A variant that ends the interrupt only on the secure-trigger path.
EndOfInterruptSecureOnly(h, irq, intr) ==
    IF intr = SECURE_TRIGGER THEN Emit(h, "plat_ic_end_of_interrupt", 0, irq) ELSE h

\* Line 360: plat_ic_end_of_interrupt(irq)
EndOfInterrupt(h, irq, intr) == Emit(h, "plat_ic_end_of_interrupt", 0, irq)

\* A variant that serves the mailbox whatever the interrupt id.
HandlerAnyId(h, irq, perf, rate) ==
    LET a == Emit(h, "plat_ic_acknowledge_interrupt", 0, irq)
        intr == plat_ic_get_interrupt_id(irq)
        b == Emit(a, "console_flush", 0, 0)
    IN  EndOfInterrupt(SecureTrigger(b, perf, rate), irq, intr)

\* Lines 276-362: the whole handler, for the raw value irq that the
\* acknowledge returns, the performance counter perf and the clock rate
\* that the co-processor reports.
Handler(h, irq, perf, rate) ==
    LET a == Emit(h, "plat_ic_acknowledge_interrupt", 0, irq)
        intr == plat_ic_get_interrupt_id(irq)
        b == Emit(a, "console_flush", 0, 0)
        c == IF intr = SECURE_TRIGGER THEN SecureTrigger(b, perf, rate) ELSE b
    IN  EndOfInterrupt(c, irq, intr)

-----------------------------------------------------------------------------
(* Inputs: the armstub words left by the GPU firmware, the device tree it  *)
(* loaded, the outcome of each device-tree library call, and what the      *)
(* requester and the co-processor put into the mailbox and the PCC regions.*)

STUB_MAGIC == <<90, 254, 87, 11>>      \* 0x5afe570b: a stub marker the GPU did not clear
CLEARED == <<0, 0, 0, 0>>

FdtCalls == {"fdt_check_header", "fdt_open_into", "dt_add_psci_node",
             "dt_add_psci_cpu_enable_methods", "fdt_add_reserved_memory",
             "fdt_setprop", "fdt_setprop_string", "fdt_pack"}

\* A boot-supplied device tree: used bytes, total size, and the two nodes
\* rpi4_prepare_dtb looks up (their "interrupts" / "stdout-path" values,
\* or "no node" when the node is missing).
Blob(has_gic, has_chosen) ==
    [totalsize |-> U32(30000), used |-> 30000, opened |-> FALSE,
     psci |-> FALSE, cpu_methods |-> FALSE, reserved |-> {},
     has_gic |-> has_gic,
     gic_interrupts |-> IF has_gic THEN <<0, 0, 0, 1, 0, 0, 0, 9, 0, 0, 4, 4>> ELSE <<>>,
     has_chosen |-> has_chosen, stdout_path |-> "",
     packed |-> FALSE]

Blobs == {Blob(g, c) : g \in BOOLEAN, c \in BOOLEAN}

Com0 == <<0, 0, 0, 0, 0, 0, 0, 0>>
ComA == <<17, 34, 51, 68, 85, 102, 119, 136>>
ComFF == <<255, 255, 255, 255, 255, 255, 255, 255>>

\* What a PCC region can hold when the handler looks at it: a read request,
\* a write request, and memory nobody initialised.
PriorRegions(sig) ==
    {[Signature |-> sig, Command |-> 0, Status |-> 0, ComSpace |-> Com0],
     [Signature |-> sig, Command |-> 1, Status |-> 0, ComSpace |-> ComA],
     [Signature |-> <<255, 255, 255, 255>>, Command |-> 65535, Status |-> 65535,
      ComSpace |-> ComFF]}

\* Values of the mailbox register.
StatusVals ==
    {U32(0), U32(1), U32(599), U32(600), U32(601), U32(1500), U32(2199),
     U32(2200), U32(2201), U32(65536),
     <<8, 0, 0, 0>>, <<16, 0, 0, 0>>, <<32, 0, 0, 0>>, <<48, 0, 0, 0>>,
     <<16, 0, 5, 220>>, <<56, 0, 3, 232>>,
     <<64, 0, 0, 0>>, <<64, 0, 0, 255>>, <<64, 0, 1, 165>>, <<112, 0, 0, 128>>,
     <<80, 0, 8, 152>>, <<128, 0, 0, 0>>, <<191, 255, 255, 255>>,
     <<255, 255, 255, 255>>}

\* Values of the performance counter at 0xFE003004.
PerfVals == {U32(0), U32(1500), <<255, 255, 255, 255>>}

\* Clock rates the co-processor reports (0, 99,999,999, 1.5 GHz, 0xFFFFFFFF).
ClockRates == {U32(0), U32(99999999), U32(1500000000), <<255, 255, 255, 255>>}

\* Requests posted in one run of the model.
MaxRequests == 1

\* Raw acknowledge values: SPI 32, SPI 33, SGI 8 sent by CPU 1, spurious.
IrqRaws == {32, 33, 1032, 1023}

-----------------------------------------------------------------------------
(* Boot sequence: bl31_early_platform_setup2, bl31_plat_arch_setup,        *)
(* bl31_platform_setup (with rpi4_prepare_dtb), one action per statement.  *)

\* plat_get_ns_image_entrypoint(), built without PRELOADED_BL33_BASE.
plat_get_ns_image_entrypoint ==
    IF stub_magic = CLEARED THEN U64(kernel_entry32) ELSE U64(U32(524288))

\* rpi4_get_dtb_address(), built without RPI3_PRELOADED_DTB_BASE.
rpi4_get_dtb_address ==
    IF stub_magic = CLEARED THEN U64(dtb_ptr32) ELSE U64(U32(0))

\* A variant without the test of the entry point.
bl31_plat_get_next_image_ep_info_unchecked(type) ==
    IF type = "NON_SECURE" THEN "bl33_image_ep_info" ELSE "bl32_image_ep_info"

\* Lines 65-80: the descriptor of the next image of the given security
\* state, or NULL when its entry point is 0.
bl31_plat_get_next_image_ep_info(type) ==
    LET next_image_info ==
            IF type = "NON_SECURE" THEN "bl33_image_ep_info" ELSE "bl32_image_ep_info"
        image == IF type = "NON_SECURE" THEN bl33_image_ep_info ELSE bl32_image_ep_info
    IN  IF image.pc # U64(U32(0)) THEN next_image_info ELSE "NULL"

Goto(from, to) == pc = from /\ pc' = to

bl31_early_platform_setup2 ==
    /\ Goto("early", "arch_dtb")
    /\ bl33_image_ep_info' = [pc |-> plat_get_ns_image_entrypoint,
                              security |-> "NON_SECURE"]
    /\ UNCHANGED <<stub_magic, dtb_ptr32, kernel_entry32, bl32_image_ep_info,
                   mmap, mmu_enabled, dtb, fdt_fails, fdt_calls, log, gic,
                   handler, mbox, pcc, irq_line, calls, requests, vc_calls>>

\* ~0x1fffff is an int; converted to unsigned long long it is sign-extended.
AlignMask2MB == <<255, 255, 255, 255, 255, 224, 0, 0>>

\* Lines 190-192: unsigned long long dtb_region = dtb_ptr32; dtb_region &= ~0x1fffff;
DtbRegion(ptr) == And(U64(ptr), AlignMask2MB)

Region(base, size, attr) == [base_pa |-> base, base_va |-> base, size |-> size, attr |-> attr]

\* A variant that maps only the 2 MiB the pointer lives in.
DtbWindowSingle2MB(ptr) ==
    Region(DtbRegion(ptr), U64(U32(2097152)), {"MT_MEMORY", "MT_RW", "MT_NS"})

\* Lines 193-194: 4U << 20 bytes of normal memory, read-write, non-secure.
DtbWindow(ptr) == Region(DtbRegion(ptr), U64(U32(4194304)), {"MT_MEMORY", "MT_RW", "MT_NS"})

\* Line 201: the first page, non-cacheable, read-write, secure.
Page0 == Region(U64(U32(0)), U64(U32(4096)), {"MT_NON_CACHEABLE", "MT_RW", "MT_SECURE"})

\* A variant that maps the window whatever the stub marker is.
ArchMapDtbAlways ==
    /\ Goto("arch_dtb", "arch_page0")
    /\ mmap' = Append(mmap, DtbWindow(dtb_ptr32))
    /\ UNCHANGED <<stub_magic, dtb_ptr32, kernel_entry32, bl33_image_ep_info,
                   bl32_image_ep_info, mmu_enabled, dtb, fdt_fails, fdt_calls,
                   log, gic, handler, mbox, pcc, irq_line, calls, requests, vc_calls>>

\* Lines 189-195.
ArchMapDtb ==
    /\ Goto("arch_dtb", "arch_page0")
    /\ mmap' = IF stub_magic = CLEARED THEN Append(mmap, DtbWindow(dtb_ptr32)) ELSE mmap
    /\ UNCHANGED <<stub_magic, dtb_ptr32, kernel_entry32, bl33_image_ep_info,
                   bl32_image_ep_info, mmu_enabled, dtb, fdt_fails, fdt_calls,
                   log, gic, handler, mbox, pcc, irq_line, calls, requests, vc_calls>>

\* Line 201.
ArchMapPage0 ==
    /\ Goto("arch_page0", "arch_tables")
    /\ mmap' = Append(mmap, Page0)
    /\ UNCHANGED <<stub_magic, dtb_ptr32, kernel_entry32, bl33_image_ep_info,
                   bl32_image_ep_info, mmu_enabled, dtb, fdt_fails, fdt_calls,
                   log, gic, handler, mbox, pcc, irq_line, calls, requests, vc_calls>>

\* Lines 203-209: rpi3_setup_page_tables maps the BL31 image itself and
\* builds the tables from everything registered so far.
ArchSetupPageTables ==
    /\ Goto("arch_tables", "arch_mmu")
    /\ UNCHANGED <<stub_magic, dtb_ptr32, kernel_entry32, bl33_image_ep_info,
                   bl32_image_ep_info, mmap, mmu_enabled, dtb, fdt_fails,
                   fdt_calls, log, gic, handler, mbox, pcc, irq_line, calls, requests,
                   vc_calls>>

\* Line 211.
ArchEnableMmu ==
    /\ Goto("arch_mmu", "dtb_check")
    /\ mmu_enabled' = TRUE
    /\ UNCHANGED <<stub_magic, dtb_ptr32, kernel_entry32, bl33_image_ep_info,
                   bl32_image_ep_info, mmap, dtb, fdt_fails, fdt_calls, log,
                   gic, handler, mbox, pcc, irq_line, calls, requests, vc_calls>>

-----------------------------------------------------------------------------
(* rpi4_prepare_dtb, lines 214-259.  The device-tree library is used as a  *)
(* capability: a call named in fdt_fails returns an error and leaves the   *)
(* blob as it was, any other call has its documented effect.               *)

dtbFrame == UNCHANGED <<stub_magic, dtb_ptr32, kernel_entry32, bl33_image_ep_info,
                        bl32_image_ep_info, mmap, mmu_enabled, fdt_fails, gic,
                        handler, mbox, pcc, irq_line, calls, requests, vc_calls>>

Fails(call) == call \in fdt_fails

Called(call, arg, ret) == Append(fdt_calls, [call |-> call, arg |-> arg, ret |-> ret])

Logged(level, msg) == Append(log, [level |-> level, msg |-> msg])

\* cpu_to_fdt32() on the little-endian CPU: the byte-swapped value.
cpu_to_fdt32(v) == Rev(v)

\* A variant that stores the cells in the CPU's byte order.
gic_int_prop_native == le32enc(U32(1)) \o le32enc(U32(9)) \o le32enc(U32(3844))

\* Lines 245-247: the bytes of gic_int_prop[3] as they lie in memory.
gic_int_prop ==
    le32enc(cpu_to_fdt32(U32(1))) \o le32enc(cpu_to_fdt32(U32(9)))
        \o le32enc(cpu_to_fdt32(U32(3844)))

\* fdt_node_offset_by_compatible(dtb, 0, "arm,gic-400"): -FDT_ERR_NOTFOUND
\* when the blob has no such node.
GicNodeOffset(blob) == IF blob.has_gic THEN 1200 ELSE 0 - 1

\* fdt_path_offset(dtb, "/chosen")
ChosenOffset(blob) == IF blob.has_chosen THEN 2400 ELSE 0 - 1

\* The return value of a property-set call: -FDT_ERR_BADOFFSET for a
\* negative node offset, -FDT_ERR_NOSPACE when the library fails.
SetpropRet(call, offs) == IF offs < 0 THEN 0 - 4 ELSE IF Fails(call) THEN 0 - 3 ELSE 0

\* Lines 220-222.
DtbCheckHeader ==
    /\ pc = "dtb_check"
    /\ pc' = IF Fails("fdt_check_header") THEN "gic_driver_init" ELSE "dtb_open"
    /\ fdt_calls' = Called("fdt_check_header", rpi4_get_dtb_address,
                           IF Fails("fdt_check_header") THEN 0 - 9 ELSE 0)
    /\ UNCHANGED <<dtb, log>>
    /\ dtbFrame

\* Lines 224-228.
DtbOpenInto ==
    /\ pc = "dtb_open"
    /\ IF Fails("fdt_open_into")
       THEN /\ pc' = "gic_driver_init"
            /\ fdt_calls' = Called("fdt_open_into", U32(1048576), 0 - 3)
            /\ log' = Logged("ERROR", "Invalid Device Tree")
            /\ dtb' = dtb
       ELSE /\ pc' = "dtb_psci"
            /\ fdt_calls' = Called("fdt_open_into", U32(1048576), 0)
            /\ dtb' = [dtb EXCEPT !.opened = TRUE, !.totalsize = U32(1048576)]
            /\ log' = log
    /\ dtbFrame

\* A variant that logs the failure and carries on.
DtbAddPsciNodeNoReturn ==
    /\ Goto("dtb_psci", "dtb_cpu")
    /\ IF Fails("dt_add_psci_node")
       THEN /\ fdt_calls' = Called("dt_add_psci_node", 0, 0 - 1)
            /\ log' = Logged("ERROR", "Failed to add PSCI Device Tree node")
            /\ dtb' = dtb
       ELSE /\ fdt_calls' = Called("dt_add_psci_node", 0, 0)
            /\ dtb' = [dtb EXCEPT !.psci = TRUE, !.used = @ + 160]
            /\ log' = log
    /\ dtbFrame

\* Lines 230-233.
DtbAddPsciNode ==
    /\ pc = "dtb_psci"
    /\ IF Fails("dt_add_psci_node")
       THEN /\ pc' = "gic_driver_init"
            /\ fdt_calls' = Called("dt_add_psci_node", 0, 0 - 1)
            /\ log' = Logged("ERROR", "Failed to add PSCI Device Tree node")
            /\ dtb' = dtb
       ELSE /\ pc' = "dtb_cpu"
            /\ fdt_calls' = Called("dt_add_psci_node", 0, 0)
            /\ dtb' = [dtb EXCEPT !.psci = TRUE, !.used = @ + 160]
            /\ log' = log
    /\ dtbFrame

\* Lines 235-238.
DtbAddPsciCpuEnableMethods ==
    /\ pc = "dtb_cpu"
    /\ IF Fails("dt_add_psci_cpu_enable_methods")
       THEN /\ pc' = "gic_driver_init"
            /\ fdt_calls' = Called("dt_add_psci_cpu_enable_methods", 0, 0 - 1)
            /\ log' = Logged("ERROR", "Failed to add PSCI cpu enable methods in Device Tree")
            /\ dtb' = dtb
       ELSE /\ pc' = "dtb_resv"
            /\ fdt_calls' = Called("dt_add_psci_cpu_enable_methods", 0, 0)
            /\ dtb' = [dtb EXCEPT !.cpu_methods = TRUE, !.used = @ + 96]
            /\ log' = log
    /\ dtbFrame

\* Lines 240-242: the memory used by Trusted Firmware, [0, 0x80000).
DtbAddReservedMemory ==
    /\ Goto("dtb_resv", "dtb_gic")
    /\ IF Fails("fdt_add_reserved_memory")
       THEN /\ fdt_calls' = Called("fdt_add_reserved_memory", "atf@0", 0 - 1)
            /\ log' = Logged("WARN", "Failed to add reserved memory nodes to DT.")
            /\ dtb' = dtb
       ELSE /\ fdt_calls' = Called("fdt_add_reserved_memory", "atf@0", 0)
            /\ dtb' = [dtb EXCEPT !.reserved = @ \cup {[name |-> "atf@0", base |-> 0,
                                                        size |-> 524288]},
                                  !.used = @ + 64]
            /\ log' = log
    /\ dtbFrame

\* A variant that writes the property only when the node was found.
DtbSetGicInterruptsIfFound ==
    /\ Goto("dtb_gic", "dtb_chosen")
    /\ LET offs == GicNodeOffset(dtb)
           ret == SetpropRet("fdt_setprop", offs)
       IN  IF offs < 0
           THEN /\ fdt_calls' = Called("fdt_node_offset_by_compatible", "arm,gic-400", offs)
                /\ dtb' = dtb
           ELSE /\ fdt_calls' = Append(Called("fdt_node_offset_by_compatible",
                                              "arm,gic-400", offs),
                                       [call |-> "fdt_setprop", arg |-> offs, ret |-> ret])
                /\ dtb' = IF ret = 0
                          THEN [dtb EXCEPT !.gic_interrupts = SubSeq(gic_int_prop, 1, 12)]
                          ELSE dtb
    /\ log' = log
    /\ dtbFrame

\* Lines 244-248: the offset is used as it comes back, the result is dropped.
DtbSetGicInterrupts ==
    /\ Goto("dtb_gic", "dtb_chosen")
    /\ LET offs == GicNodeOffset(dtb)
           ret == SetpropRet("fdt_setprop", offs)
       IN  /\ fdt_calls' = Append(Called("fdt_node_offset_by_compatible", "arm,gic-400", offs),
                                  [call |-> "fdt_setprop", arg |-> offs, ret |-> ret])
           /\ dtb' = IF ret = 0
                     THEN [dtb EXCEPT !.gic_interrupts = SubSeq(gic_int_prop, 1, 12)]
                     ELSE dtb
    /\ log' = log
    /\ dtbFrame

\* Lines 250-251.
DtbSetStdoutPath ==
    /\ Goto("dtb_chosen", "dtb_pack")
    /\ LET offs == ChosenOffset(dtb)
           ret == SetpropRet("fdt_setprop_string", offs)
       IN  /\ fdt_calls' = Append(Called("fdt_path_offset", "/chosen", offs),
                                  [call |-> "fdt_setprop_string", arg |-> offs, ret |-> ret])
           /\ dtb' = IF ret = 0
                     THEN [dtb EXCEPT !.stdout_path = "serial0", !.used = @ + 24]
                     ELSE dtb
    /\ log' = log
    /\ dtbFrame

\* A variant that returns when the pack fails.
DtbPackReturns ==
    /\ pc = "dtb_pack"
    /\ IF Fails("fdt_pack")
       THEN /\ pc' = "gic_driver_init"
            /\ fdt_calls' = Called("fdt_pack", 0, 0 - 3)
            /\ log' = Logged("ERROR", "Failed to pack Device Tree")
            /\ dtb' = dtb
       ELSE /\ pc' = "dtb_flush"
            /\ fdt_calls' = Called("fdt_pack", 0, 0)
            /\ dtb' = [dtb EXCEPT !.packed = TRUE, !.totalsize = U32(dtb.used)]
            /\ log' = log
    /\ dtbFrame

\* Lines 253-255: a packed blob's total size is what it uses.
DtbPack ==
    /\ Goto("dtb_pack", "dtb_flush")
    /\ IF Fails("fdt_pack")
       THEN /\ fdt_calls' = Called("fdt_pack", 0, 0 - 3)
            /\ log' = Logged("ERROR", "Failed to pack Device Tree")
            /\ dtb' = dtb
       ELSE /\ fdt_calls' = Called("fdt_pack", 0, 0)
            /\ dtb' = [dtb EXCEPT !.packed = TRUE, !.totalsize = U32(dtb.used)]
            /\ log' = log
    /\ dtbFrame

\* Lines 257-258: fdt_blob_size() is the blob's total size field.
DtbFlush ==
    /\ Goto("dtb_flush", "gic_driver_init")
    /\ fdt_calls' = Called("clean_dcache_range", <<rpi4_get_dtb_address, dtb.totalsize>>, 0)
    /\ log' = Logged("INFO", "Changed device tree to advertise PSCI.")
    /\ dtb' = dtb
    /\ dtbFrame

rpi4_prepare_dtb ==
    \/ DtbCheckHeader
    \/ DtbOpenInto
    \/ DtbAddPsciNode
    \/ DtbAddPsciCpuEnableMethods
    \/ DtbAddReservedMemory
    \/ DtbSetGicInterrupts
    \/ DtbSetStdoutPath
    \/ DtbPack
    \/ DtbFlush

-----------------------------------------------------------------------------
(* bl31_platform_setup after the device-tree patch, lines 374-408.         *)

setupFrame == UNCHANGED <<stub_magic, dtb_ptr32, kernel_entry32, bl33_image_ep_info,
                          bl32_image_ep_info, mmap, mmu_enabled, dtb, fdt_fails,
                          fdt_calls, log, mbox, irq_line, calls, requests>>

\* Line 375: gicv2_driver_init(&rpi4_gic_data) records the driver data, with
\* the one interrupt property of lines 41-43 (SECURE_TRIGGER, group 0, level).
GicDriverInit ==
    /\ Goto("gic_driver_init", "gic_distif_init")
    /\ gic' = [gic EXCEPT !.driver = TRUE]
    /\ UNCHANGED <<handler, pcc, vc_calls>>
    /\ setupFrame

\* Line 376: gicv2_distif_init() configures and enables the SPIs named in
\* the interrupt properties, then enables the distributor.
GicDistifInit ==
    /\ Goto("gic_distif_init", "gic_pcpu_distif_init")
    /\ gic' = [gic EXCEPT !.distributor = TRUE, !.spi_enabled = {SECURE_TRIGGER}]
    /\ UNCHANGED <<handler, pcc, vc_calls>>
    /\ setupFrame

\* Line 377.
GicPcpuDistifInit ==
    /\ Goto("gic_pcpu_distif_init", "gic_cpuif_enable")
    /\ gic' = [gic EXCEPT !.pcpu = TRUE]
    /\ UNCHANGED <<handler, pcc, vc_calls>>
    /\ setupFrame

\* A variant in which the CPU interface is left disabled.
GicCpuifEnableForgotten ==
    /\ Goto("gic_cpuif_enable", "register_handler")
    /\ UNCHANGED <<gic, handler, pcc, vc_calls>>
    /\ setupFrame

\* Line 378: gicv2_cpuif_enable() lets the CPU interface signal group 0.
GicCpuifEnable ==
    /\ Goto("gic_cpuif_enable", "register_handler")
    /\ gic' = [gic EXCEPT !.cpuif = TRUE]
    /\ UNCHANGED <<handler, pcc, vc_calls>>
    /\ setupFrame

\* Lines 380-382.
RegisterHandler ==
    /\ Goto("register_handler", "set_power")
    /\ handler' = TRUE
    /\ UNCHANGED <<gic, pcc, vc_calls>>
    /\ setupFrame

Rpc(name, arg) == Append(vc_calls, [rpc |-> name, arg |-> arg])

\* Lines 384-386: power domains 4, 5 and 6, one call each.
VcSetPower ==
    /\ pc = "set_power"
    /\ LET done == Cardinality({i \in 1..Len(vc_calls) : vc_calls[i].rpc = "rpi4_vc_set_power"})
       IN  /\ vc_calls' = Rpc("rpi4_vc_set_power", <<4 + done, 1, 1>>)
           /\ pc' = IF done = 2 THEN "queries" ELSE "set_power"
    /\ UNCHANGED <<gic, handler, pcc>>
    /\ setupFrame

\* Lines 389-394.
VcQueries ==
    /\ Goto("queries", "fan_off")
    /\ vc_calls' = vc_calls \o <<[rpc |-> "rpi4_vc_get_board_revision", arg |-> 0],
                                 [rpc |-> "rpi4_vc_get_clock", arg |-> 0],
                                 [rpc |-> "rpi4_vc_max_clock", arg |-> 0]>>
    /\ UNCHANGED <<gic, handler, pcc>>
    /\ setupFrame

\* Line 396.
VcFanOff ==
    /\ Goto("fan_off", "idle_init")
    /\ vc_calls' = Rpc("rpi4_vc_set_pwm", 0)
    /\ UNCHANGED <<gic, handler, pcc>>
    /\ setupFrame

\* A variant that initialises the first region only.
IdleInitFirstOnly ==
    /\ Goto("idle_init", "done")
    /\ pcc' = [pcc EXCEPT ![PCC0].Signature = SIG0, ![PCC0].Command = 0, ![PCC0].Status = 1]
    /\ UNCHANGED <<gic, handler, vc_calls>>
    /\ setupFrame

\* Lines 398-408.
IdleInit ==
    /\ Goto("idle_init", "done")
    /\ pcc' = [pcc EXCEPT ![PCC0].Signature = SIG0, ![PCC0].Command = 0, ![PCC0].Status = 1,
                          ![PCC1].Signature = SIG1, ![PCC1].Command = 0, ![PCC1].Status = 1]
    /\ UNCHANGED <<gic, handler, vc_calls>>
    /\ setupFrame

bl31_platform_setup ==
    \/ rpi4_prepare_dtb
    \/ GicDriverInit
    \/ GicDistifInit
    \/ GicPcpuDistifInit
    \/ GicCpuifEnable
    \/ RegisterHandler
    \/ VcSetPower
    \/ VcQueries
    \/ VcFanOff
    \/ IdleInit

bl31_plat_arch_setup ==
    \/ ArchMapDtb
    \/ ArchMapPage0
    \/ ArchSetupPageTables
    \/ ArchEnableMmu

-----------------------------------------------------------------------------
(* Interrupts.                                                             *)

\* The secure trigger is enabled at the distributor and the CPU interface
\* forwards it.
LineEnabled == gic.distributor /\ SECURE_TRIGGER \in gic.spi_enabled /\ gic.cpuif

\* An interrupt is taken through the registered handler.
Invocable == LineEnabled /\ handler

\* The requester fills the PCC regions, writes the mailbox register and so
\* raises the secure trigger.
Request ==
    /\ irq_line = NoIrq
    /\ requests < MaxRequests
    /\ \E v \in StatusVals, r0 \in PriorRegions(SIG0), r1 \in PriorRegions(SIG1) :
          /\ mbox' = v
          /\ pcc' = (PCC0 :> r0) @@ (PCC1 :> r1)
    /\ irq_line' = SECURE_TRIGGER
    /\ calls' = <<>>
    /\ requests' = requests + 1
    /\ UNCHANGED bootVars

\* Another group 0 interrupt, or a spurious one, becomes pending.
OtherInterrupt ==
    /\ irq_line = NoIrq
    /\ irq_line' \in IrqRaws \ {SECURE_TRIGGER}
    /\ calls' = <<>>
    /\ UNCHANGED <<mbox, pcc, requests>>
    /\ UNCHANGED bootVars

\* The handler reads the performance counter and asks for the clock rate
\* only on the path of lines 302-311; elsewhere no value is drawn.
ReadsCounter ==
    /\ plat_ic_get_interrupt_id(irq_line) = SECURE_TRIGGER
    /\ Bit(mbox, 28)
    /\ pcc[PCC0].Command = 0

CounterReads == IF ReadsCounter THEN PerfVals ELSE {U32(0)}
ClockReads == IF ReadsCounter THEN ClockRates ELSE {U32(0)}

\* Lines 276-362, run to completion.
generic_mb_interrupt_handler ==
    /\ irq_line # NoIrq
    /\ Invocable
    /\ \E perf \in CounterReads, rate \in ClockReads :
          LET h == Handler([mbox |-> mbox, pcc |-> pcc, calls |-> <<>>], irq_line, perf, rate)
          IN  /\ mbox' = h.mbox
              /\ pcc' = h.pcc
              /\ calls' = h.calls
    /\ irq_line' = NoIrq
    /\ UNCHANGED requests
    /\ UNCHANGED bootVars

-----------------------------------------------------------------------------
(* Specifications.                                                         *)

Uninitialised == [Signature |-> <<255, 255, 255, 255>>, Command |-> 65535,
                  Status |-> 65535, ComSpace |-> ComFF]

GicOff == [driver |-> FALSE, distributor |-> FALSE, spi_enabled |-> {},
           pcpu |-> FALSE, cpuif |-> FALSE]

GicOn == [driver |-> TRUE, distributor |-> TRUE, spi_enabled |-> {SECURE_TRIGGER},
          pcpu |-> TRUE, cpuif |-> TRUE]

\* The static descriptors are zero-initialised.
NoImage == [pc |-> U64(U32(0)), security |-> "SECURE"]

\* Entry to BL31 with the armstub words, the blob and the library outcomes
\* drawn from the given sets.
Entry(magics, dtbs, kernels, blobs, fails) ==
    /\ pc = "early"
    /\ stub_magic \in magics
    /\ dtb_ptr32 \in dtbs
    /\ kernel_entry32 \in kernels
    /\ bl33_image_ep_info = NoImage
    /\ bl32_image_ep_info = NoImage
    /\ mmap = <<>>
    /\ mmu_enabled = FALSE
    /\ dtb \in blobs
    /\ fdt_fails \in fails
    /\ fdt_calls = <<>>
    /\ log = <<>>
    /\ gic = GicOff
    /\ handler = FALSE
    /\ mbox = U32(0)
    /\ pcc = (PCC0 :> Uninitialised) @@ (PCC1 :> Uninitialised)
    /\ irq_line = NoIrq
    /\ calls = <<>>
    /\ requests = 0
    /\ vc_calls = <<>>

\* The whole program: the boot sequence, with requests and interrupts
\* arriving at any moment.
Init ==
    Entry({CLEARED, STUB_MAGIC}, {<<46, 255, 46, 0>>}, {U32(2097152)},
          {Blob(TRUE, TRUE)}, {{}, {"fdt_check_header"}})

Next ==
    \/ bl31_early_platform_setup2
    \/ bl31_plat_arch_setup
    \/ bl31_platform_setup
    \/ Request
    \/ OtherInterrupt
    \/ generic_mb_interrupt_handler

Spec == Init /\ [][Next]_vars

\* The runtime after bl31_platform_setup has returned (here: a boot whose
\* stub marker was not cleared and that found no device tree).
InitIrq ==
    /\ pc = "done"
    /\ stub_magic = STUB_MAGIC
    /\ dtb_ptr32 = <<46, 255, 46, 0>>
    /\ kernel_entry32 = U32(2097152)
    /\ bl33_image_ep_info = [pc |-> U64(U32(524288)), security |-> "NON_SECURE"]
    /\ bl32_image_ep_info = NoImage
    /\ mmap = <<Page0>>
    /\ mmu_enabled = TRUE
    /\ dtb = Blob(TRUE, TRUE)
    /\ fdt_fails = {"fdt_check_header"}
    /\ fdt_calls = <<[call |-> "fdt_check_header", arg |-> U64(U32(0)), ret |-> 0 - 9]>>
    /\ log = <<>>
    /\ gic = GicOn
    /\ handler = TRUE
    /\ mbox = U32(0)
    /\ pcc = (PCC0 :> Idle(SIG0, ComFF)) @@ (PCC1 :> Idle(SIG1, ComFF))
    /\ irq_line = NoIrq
    /\ calls = <<>>
    /\ requests = 0
    /\ vc_calls = <<[rpc |-> "rpi4_vc_set_power", arg |-> <<4, 1, 1>>],
                    [rpc |-> "rpi4_vc_set_power", arg |-> <<5, 1, 1>>],
                    [rpc |-> "rpi4_vc_set_power", arg |-> <<6, 1, 1>>],
                    [rpc |-> "rpi4_vc_get_board_revision", arg |-> 0],
                    [rpc |-> "rpi4_vc_get_clock", arg |-> 0],
                    [rpc |-> "rpi4_vc_max_clock", arg |-> 0],
                    [rpc |-> "rpi4_vc_set_pwm", arg |-> 0]>>

\* Device-tree pointers: 0, 0x100, 0x1000, 0x1FFFFF, 0x200000, 0x2EFF2E00,
\* 0x7FFFFFFF, 0xFFE00000, 0xFFFFFFFF.
DtbPointers ==
    {U32(0), U32(256), U32(4096), U32(2097151), U32(2097152), <<46, 255, 46, 0>>,
     <<127, 255, 255, 255>>, <<255, 224, 0, 0>>, <<255, 255, 255, 255>>}

\* Kernel entry points: 0, 0x80000, 0x200000.
KernelEntries == {U32(0), U32(524288), U32(2097152)}

\* The early setup and the translation-table setup, for every stub marker,
\* device-tree pointer and kernel entry.
InitArch ==
    Entry({CLEARED, STUB_MAGIC}, DtbPointers, KernelEntries, {Blob(TRUE, TRUE)}, {{}})

NextArch ==
    \/ bl31_early_platform_setup2
    \/ bl31_plat_arch_setup

SpecArch == InitArch /\ [][NextArch]_vars

\* Entry to rpi4_prepare_dtb, the first statement of bl31_platform_setup,
\* for every blob and every combination of failing library calls.
InitDtb ==
    /\ pc = "dtb_check"
    /\ stub_magic \in {CLEARED, STUB_MAGIC}
    /\ dtb_ptr32 = <<46, 255, 46, 0>>
    /\ kernel_entry32 = U32(2097152)
    /\ bl33_image_ep_info = [pc |-> plat_get_ns_image_entrypoint, security |-> "NON_SECURE"]
    /\ bl32_image_ep_info = NoImage
    /\ mmap = (IF stub_magic = CLEARED THEN <<DtbWindow(dtb_ptr32)>> ELSE <<>>) \o <<Page0>>
    /\ mmu_enabled = TRUE
    /\ dtb \in Blobs
    /\ fdt_fails \in SUBSET FdtCalls
    /\ fdt_calls = <<>>
    /\ log = <<>>
    /\ gic = GicOff
    /\ handler = FALSE
    /\ mbox = U32(0)
    /\ pcc = (PCC0 :> Uninitialised) @@ (PCC1 :> Uninitialised)
    /\ irq_line = NoIrq
    /\ calls = <<>>
    /\ requests = 0
    /\ vc_calls = <<>>

NextDtb == rpi4_prepare_dtb

SpecDtb == InitDtb /\ [][NextDtb]_vars

NextIrq ==
    \/ Request
    \/ OtherInterrupt
    \/ generic_mb_interrupt_handler

SpecIrq == InitIrq /\ [][NextIrq]_vars

\* The handler entered with an interrupt acknowledged while the mailbox
\* register and the regions hold anything a requester can have left there
\* (a lower-numbered SGI, another SPI or a spurious id can be acknowledged
\* while a request is posted).
InitPending ==
    /\ pc = "done"
    /\ stub_magic = STUB_MAGIC
    /\ dtb_ptr32 = <<46, 255, 46, 0>>
    /\ kernel_entry32 = U32(2097152)
    /\ bl33_image_ep_info = [pc |-> U64(U32(524288)), security |-> "NON_SECURE"]
    /\ bl32_image_ep_info = NoImage
    /\ mmap = <<Page0>>
    /\ mmu_enabled = TRUE
    /\ dtb = Blob(TRUE, TRUE)
    /\ fdt_fails = {"fdt_check_header"}
    /\ fdt_calls = <<[call |-> "fdt_check_header", arg |-> U64(U32(0)), ret |-> 0 - 9]>>
    /\ log = <<>>
    /\ gic = GicOn
    /\ handler = TRUE
    /\ mbox \in StatusVals
    /\ \E r0 \in PriorRegions(SIG0), r1 \in PriorRegions(SIG1) :
          pcc = (PCC0 :> r0) @@ (PCC1 :> r1)
    /\ irq_line \in IrqRaws
    /\ calls = <<>>
    /\ requests = 1
    /\ vc_calls = <<[rpc |-> "rpi4_vc_set_power", arg |-> <<4, 1, 1>>],
                    [rpc |-> "rpi4_vc_set_power", arg |-> <<5, 1, 1>>],
                    [rpc |-> "rpi4_vc_set_power", arg |-> <<6, 1, 1>>],
                    [rpc |-> "rpi4_vc_get_board_revision", arg |-> 0],
                    [rpc |-> "rpi4_vc_get_clock", arg |-> 0],
                    [rpc |-> "rpi4_vc_max_clock", arg |-> 0],
                    [rpc |-> "rpi4_vc_set_pwm", arg |-> 0]>>

NextPending == generic_mb_interrupt_handler

SpecPending == InitPending /\ [][NextPending]_vars

-----------------------------------------------------------------------------
(* Reading the trace of a handler run.                                     *)

Events(op) == {i \in 1..Len(calls) : calls[i].op = op}
Count(op) == Cardinality(Events(op))
The(op) == calls[CHOOSE i \in Events(op) : TRUE]

\* The handler has run and returned since the latest interrupt was raised.
Returned == Len(calls) > 0

\* The raw value the acknowledge returned in that run.
AckIrq == The("plat_ic_acknowledge_interrupt").val

\* That run was for the secure trigger.
SecureRun == Returned /\ plat_ic_get_interrupt_id(AckIrq) = SECURE_TRIGGER

\* The value that run read from the mailbox register.
StatusReads == {i \in Events("mmio_read_32") : calls[i].arg = MBOX_REG}
StatusRead == calls[CHOOSE i \in StatusReads : TRUE].val

IsIdle(region, sig) ==
    /\ pcc[region].Signature = sig
    /\ pcc[region].Command = 0
    /\ pcc[region].Status = 1

\* The run wrote the idle triple to the region, in the order of the code.
WroteIdle(region, sig) ==
    \E i \in 1..(Len(calls) - 2) :
        /\ calls[i] = Ev("Signature", region, sig)
        /\ calls[i + 1] = Ev("Command", region, 0)
        /\ calls[i + 2] = Ev("Status", region, 1)

-----------------------------------------------------------------------------
(* Claims.                                                                 *)

\* C1: every handler invocation, whatever the interrupt id and the status
\* value, acknowledges exactly once, then ends the interrupt exactly once,
\* and ends it with the handle the acknowledge returned.
C1_OneAckOneEoi ==
    Returned =>
        /\ Count("plat_ic_acknowledge_interrupt") = 1
        /\ Count("plat_ic_end_of_interrupt") = 1
        /\ calls[1].op = "plat_ic_acknowledge_interrupt"
        /\ calls[Len(calls)].op = "plat_ic_end_of_interrupt"
        /\ Len(calls) > 1
        /\ calls[Len(calls)].val = AckIrq

\* A run for an interrupt that is not the secure trigger and whose handle
\* differs from its id (SGI 8 from CPU 1) has returned.
C1_Witness == Returned /\ AckIrq = 1032 /\ Count("plat_ic_end_of_interrupt") = 1

\* C2: after every secure-trigger invocation both regions are idle, each
\* with its own signature, and no signature was written to the other region.
C2_BothIdle ==
    SecureRun =>
        /\ IsIdle(PCC0, SIG0)
        /\ IsIdle(PCC1, SIG1)
        /\ \A i \in Events("Signature") :
              calls[i].val = (IF calls[i].arg = PCC0 THEN SIG0 ELSE SIG1)

\* A secure-trigger run that read status 0x30000000 has returned.
C2_Witness == SecureRun /\ StatusRead = <<48, 0, 0, 0>> /\ IsIdle(PCC0, SIG0) /\ IsIdle(PCC1, SIG1)

\* C3 as stated: for status 0x10000000 exactly one get-pwm RPC, the idle
\* triple in the channel-1 region, one acknowledge / end-of-interrupt pair,
\* and no clock RPC (get-clock, set-clock) and no power RPC.
C3_AsStated ==
    (SecureRun /\ StatusRead = <<16, 0, 0, 0>>) =>
        /\ Count("rpi4_vc_get_pwm") = 1
        /\ WroteIdle(PCC1, SIG1)
        /\ Count("plat_ic_acknowledge_interrupt") = 1
        /\ Count("plat_ic_end_of_interrupt") = 1
        /\ Count("rpi4_vc_get_clock") = 0
        /\ Count("rpi4_vc_set_clock") = 0
        /\ Count("rpi4_vc_set_power") = 0

\* C3 amended: for status 0x10000000 the handler issues no get-pwm RPC; it
\* serves the region at 0x1f0000 (one get-clock RPC exactly when that
\* region's command is 0), issues exactly one set-clock RPC, for
\* 2,200,000,000, writes the idle triple to both regions, performs one
\* acknowledge / end-of-interrupt pair, and issues no set-pwm and no power RPC.
C3_Bit28Only ==
    (SecureRun /\ StatusRead = <<16, 0, 0, 0>>) =>
        /\ Count("rpi4_vc_get_pwm") = 0
        /\ Count("read Command") = 1
        /\ Count("rpi4_vc_get_clock") = (IF The("read Command").val = 0 THEN 1 ELSE 0)
        /\ Count("rpi4_vc_set_clock") = 1
        /\ The("rpi4_vc_set_clock").val = <<131, 33, 86, 0>>
        /\ WroteIdle(PCC0, SIG0)
        /\ WroteIdle(PCC1, SIG1)
        /\ Count("plat_ic_acknowledge_interrupt") = 1
        /\ Count("plat_ic_end_of_interrupt") = 1
        /\ Count("rpi4_vc_set_pwm") = 0
        /\ Count("rpi4_vc_set_power") = 0

\* A secure-trigger run that read 0x10000000 and found command 0 has returned.
C3_Witness ==
    /\ SecureRun
    /\ StatusRead = <<16, 0, 0, 0>>
    /\ Count("read Command") = 1
    /\ The("read Command").val = 0
    /\ Count("rpi4_vc_set_clock") = 1

\* clamp(v, 600, 2200), as the claim words it.
Clamp600To2200(v) ==
    IF Lt(v, U32(600)) THEN U32(600) ELSE IF Lt(U32(2200), v) THEN U32(2200) ELSE v

\* C4: for every status value with bit 30 clear the handler issues exactly
\* one set-clock RPC; its argument is clamp(v, 600, 2200) * 1,000,000 without
\* any wrap-around (the 64-bit product has no high half), lies within
\* [600,000,000, 2,200,000,000], and is 600,000,000 for v = 0.
C4_ClockArgument ==
    (SecureRun /\ ~Bit(StatusRead, 30)) =>
        /\ Count("rpi4_vc_set_clock") = 1
        /\ U64(The("rpi4_vc_set_clock").val) = MulWide(Clamp600To2200(StatusRead), U32(1000000))
        /\ Le(U32(600000000), The("rpi4_vc_set_clock").val)
        /\ Le(The("rpi4_vc_set_clock").val, <<131, 33, 86, 0>>)
        /\ (StatusRead = U32(0) => The("rpi4_vc_set_clock").val = U32(600000000))

\* A secure-trigger run that read status 0 has issued set-clock(600,000,000).
C4_Witness ==
    /\ SecureRun
    /\ StatusRead = U32(0)
    /\ Count("rpi4_vc_set_clock") = 1
    /\ The("rpi4_vc_set_clock").val = U32(600000000)

\* C5: with bit 30 set the handler issues set-pwm exactly once, with the low
\* byte of the status value unclamped, and no set-clock; with bit 30 clear it
\* issues no set-pwm.  The two never occur in the same invocation.
C5_FanXorClock ==
    SecureRun =>
        /\ Bit(StatusRead, 30) =>
              /\ Count("rpi4_vc_set_pwm") = 1
              /\ The("rpi4_vc_set_pwm").val = <<0, 0, 0, StatusRead[4]>>
              /\ Count("rpi4_vc_set_clock") = 0
        /\ ~Bit(StatusRead, 30) => Count("rpi4_vc_set_pwm") = 0
        /\ ~(Count("rpi4_vc_set_pwm") > 0 /\ Count("rpi4_vc_set_clock") > 0)

\* A secure-trigger run that read 0x400001A5 has issued set-pwm(0xA5).
C5_Witness ==
    /\ SecureRun
    /\ StatusRead = <<64, 0, 1, 165>>
    /\ Count("rpi4_vc_set_pwm") = 1
    /\ The("rpi4_vc_set_pwm").val = U32(165)

-----------------------------------------------------------------------------
(* Reading the calls of rpi4_prepare_dtb.                                  *)

\* rpi4_prepare_dtb has returned.
DtbReturned == pc = "gic_driver_init"

CallsOf(call) == {i \in 1..Len(fdt_calls) : fdt_calls[i].call = call}
WasCalled(call) == CallsOf(call) # {}
Failed(call) == \E i \in CallsOf(call) : fdt_calls[i].ret < 0
Succeeded(call) == \E i \in CallsOf(call) : fdt_calls[i].ret = 0
LastCall == fdt_calls[Len(fdt_calls)].call

\* The blob as the boot supplied it.
SuppliedBlob == Blob(dtb.has_gic, dtb.has_chosen)

AtfReserved == [name |-> "atf@0", base |-> 0, size |-> 524288]

\* The "interrupts" value: the big-endian cells 1, 9, 0x0f04.
GicCells == <<0, 0, 0, 1, 0, 0, 0, 9, 0, 0, 15, 4>>

FullyPatched ==
    /\ dtb.psci
    /\ dtb.cpu_methods
    /\ AtfReserved \in dtb.reserved
    /\ dtb.gic_interrupts = GicCells
    /\ dtb.stdout_path = "serial0"
    /\ dtb.packed

HasLog(level, msg) == \E i \in 1..Len(log) : log[i] = [level |-> level, msg |-> msg]

\* C6: for a blob that passes the header check, has both nodes, and on which
\* every library call succeeds, rpi4_prepare_dtb returns with the PSCI node,
\* the cpu enable methods, the reserved range atf@0 [0, 0x80000), the
\* "interrupts" cells {1, 9, 0x0f04} big-endian and stdout-path "serial0" in
\* place, the blob packed, and then flushed for its packed size.
C6_Patched ==
    (DtbReturned /\ fdt_fails = {} /\ dtb.has_gic /\ dtb.has_chosen) =>
        /\ FullyPatched
        /\ Len(dtb.gic_interrupts) = 12
        /\ dtb.totalsize = U32(dtb.used)
        /\ Succeeded("fdt_pack")
        /\ LastCall = "clean_dcache_range"
        /\ fdt_calls[Len(fdt_calls) - 1].call = "fdt_pack"
        /\ fdt_calls[Len(fdt_calls)].arg[2] = dtb.totalsize

\* A run on which nothing failed has returned with the flush as its last call.
C6_Witness ==
    /\ DtbReturned
    /\ fdt_fails = {}
    /\ dtb.has_gic /\ dtb.has_chosen
    /\ WasCalled("clean_dcache_range")
    /\ dtb.gic_interrupts = GicCells

\* C7 as stated: on return the blob is either fully patched or, a step
\* having failed, identical to what the boot supplied, with the failure logged.
C7_AsStated ==
    DtbReturned =>
        \/ FullyPatched
        \/ dtb = SuppliedBlob /\ (log # <<>> \/ Failed("fdt_check_header"))

\* C7 amended: the patch is best-effort, not atomic.  The blob is left as
\* supplied exactly when the header check or the open-for-edit fails; every
\* step that succeeded keeps its effect; a failed open, add-PSCI-node or
\* add-cpu-enable-methods is logged as an error and is the last call; a
\* failed reserved-memory insertion is logged as a warning and a failed pack
\* as an error, neither stopping the later steps; failed property writes are
\* not logged; the blob is fully patched exactly when no call failed.
C7_BestEffort ==
    DtbReturned =>
        /\ (dtb = SuppliedBlob) <=> (Failed("fdt_check_header") \/ Failed("fdt_open_into"))
        /\ Succeeded("fdt_open_into") => dtb.opened
        /\ Succeeded("dt_add_psci_node") => dtb.psci
        /\ Succeeded("dt_add_psci_cpu_enable_methods") => dtb.cpu_methods
        /\ Succeeded("fdt_add_reserved_memory") => AtfReserved \in dtb.reserved
        /\ Succeeded("fdt_setprop") => dtb.gic_interrupts = GicCells
        /\ Succeeded("fdt_setprop_string") => dtb.stdout_path = "serial0"
        /\ Succeeded("fdt_pack") => dtb.packed
        /\ \A c \in {"fdt_check_header", "fdt_open_into", "dt_add_psci_node",
                     "dt_add_psci_cpu_enable_methods"} : Failed(c) => LastCall = c
        /\ Failed("fdt_open_into") <=> HasLog("ERROR", "Invalid Device Tree")
        /\ Failed("dt_add_psci_node") <=> HasLog("ERROR", "Failed to add PSCI Device Tree node")
        /\ Failed("dt_add_psci_cpu_enable_methods")
              <=> HasLog("ERROR", "Failed to add PSCI cpu enable methods in Device Tree")
        /\ Failed("fdt_add_reserved_memory")
              <=> HasLog("WARN", "Failed to add reserved memory nodes to DT.")
        /\ Failed("fdt_pack") <=> HasLog("ERROR", "Failed to pack Device Tree")
        /\ (Failed("fdt_add_reserved_memory") \/ Failed("fdt_pack")
              \/ Failed("fdt_setprop") \/ Failed("fdt_setprop_string"))
                 => LastCall = "clean_dcache_range"
        /\ Len(log) = Cardinality({c \in {"fdt_open_into", "dt_add_psci_node",
                                          "dt_add_psci_cpu_enable_methods",
                                          "fdt_add_reserved_memory", "fdt_pack"} : Failed(c)})
                      + (IF WasCalled("clean_dcache_range") THEN 1 ELSE 0)
        /\ FullyPatched <=> (WasCalled("clean_dcache_range")
                               /\ \A i \in 1..Len(fdt_calls) : ~(fdt_calls[i].ret < 0))

\* A run in which the cpu-enable-methods step failed has returned with the
\* PSCI node in the blob.
C7_Witness ==
    /\ DtbReturned
    /\ Failed("dt_add_psci_cpu_enable_methods")
    /\ dtb.psci
    /\ dtb # SuppliedBlob

-----------------------------------------------------------------------------
(* Boot order.                                                             *)

ArchSteps == {"arch_dtb", "arch_page0", "arch_tables", "arch_mmu"}
DtbSteps == {"dtb_check", "dtb_open", "dtb_psci", "dtb_cpu", "dtb_resv", "dtb_gic",
             "dtb_chosen", "dtb_pack", "dtb_flush"}
GicSteps == {"gic_driver_init", "gic_distif_init", "gic_pcpu_distif_init",
             "gic_cpuif_enable"}

\* rpi4_prepare_dtb has been entered / has returned.
DtbPatchStarted == fdt_calls # <<>>
DtbPatchDone == pc \notin ({"early"} \cup ArchSteps \cup DtbSteps)

GicInitDone == gic.driver /\ gic.distributor /\ gic.pcpu /\ gic.cpuif

\* C8 as stated: the secure mailbox line is never enabled (distributor and
\* CPU interface initialised and enabled) while no handler is registered.
C8_AsStated == LineEnabled => handler

\* C8 amended: translation-table setup, DTB patch, interrupt-controller
\* initialisation and handler registration complete in that order; the
\* interrupt-controller initialisation itself enables the secure line, so
\* the line is enabled before the handler is registered, and a registered
\* handler always finds the line enabled.
C8_BootOrder ==
    /\ DtbPatchStarted => mmu_enabled /\ Len(mmap) > 0
    /\ gic.driver => DtbPatchDone /\ DtbPatchStarted
    /\ gic.distributor => gic.driver
    /\ gic.pcpu => gic.distributor
    /\ gic.cpuif => gic.pcpu
    /\ handler => GicInitDone /\ LineEnabled
    /\ pc = "register_handler" => LineEnabled /\ ~handler

\* The boot CPU is about to register the handler: the line is already
\* enabled and no handler is registered.
C8_Witness == pc = "register_handler" /\ LineEnabled /\ ~handler /\ mmu_enabled

\* C9 as stated: no handler invocation happens before the idle
\* initialisation at the end of bl31_platform_setup has completed.
C9_AsStated == Returned => pc = "done"

\* C9 amended: the idle initialisation is the last step of
\* bl31_platform_setup, after the handler registration, so a mailbox
\* interrupt can be served before it; no invocation happens before the
\* handler is registered and the line enabled; and once bl31_platform_setup
\* has returned, both regions hold the idle triple whenever no interrupt is
\* pending.
C9_IdleAfterRegistration ==
    /\ Returned => handler /\ LineEnabled /\ pc \in {"set_power", "queries", "fan_off",
                                                  "idle_init", "done"}
    /\ pc \in {"idle_init", "done"} => handler
    /\ (pc = "done" /\ irq_line = NoIrq) => IsIdle(PCC0, SIG0) /\ IsIdle(PCC1, SIG1)

\* A secure-trigger run of the handler has returned while the boot CPU has
\* not yet reached the idle initialisation.
C9_Witness == SecureRun /\ pc = "set_power" /\ handler

-----------------------------------------------------------------------------
(* Translation regions.                                                    *)

\* The first address past the region (64-bit, no wrap for 32-bit bases).
RegionEnd(r) == Add(r.base_pa, r.size)

Overlap(r1, r2) == Lt(r1.base_pa, RegionEnd(r2)) /\ Lt(r2.base_pa, RegionEnd(r1))

\* Two attribute sets conflict when they disagree on the security state or
\* on cacheability.
Conflicting(a1, a2) ==
    \/ ("MT_NS" \in a1) # ("MT_NS" \in a2)
    \/ ("MT_NON_CACHEABLE" \in a1) # ("MT_NON_CACHEABLE" \in a2)

\* bl31_plat_arch_setup has registered its regions and enabled the MMU.
ArchDone == pc = "dtb_check"

\* C10: for every stub marker and every device-tree pointer, no two regions
\* registered by bl31_plat_arch_setup overlap with conflicting attributes; in
\* particular the non-secure cacheable device-tree window never overlaps the
\* secure non-cacheable first page [0, 4096).
C10_NoConflictingOverlap ==
    \A i, j \in 1..Len(mmap) :
        (i # j /\ Overlap(mmap[i], mmap[j])) => ~Conflicting(mmap[i].attr, mmap[j].attr)

-----------------------------------------------------------------------------
(* Next-image lookup.                                                      *)

\* bl31_early_platform_setup2 has returned.
EarlyDone == pc # "early"

\* C11: after the early phase the lookup for the secure type returns NULL;
\* the lookup for the non-secure type returns the non-secure descriptor
\* exactly when its stored entry point is nonzero, and NULL otherwise; the
\* stored entry point is kernel_entry32 when the stub marker is 0 and
\* 0x80000 otherwise (so a cleared marker with kernel_entry32 = 0 gives NULL).
C11_NextImage ==
    EarlyDone =>
        /\ bl31_plat_get_next_image_ep_info("SECURE") = "NULL"
        /\ bl33_image_ep_info.pc =
              (IF stub_magic = CLEARED THEN U64(kernel_entry32) ELSE U64(U32(524288)))
        /\ bl33_image_ep_info.security = "NON_SECURE"
        /\ bl31_plat_get_next_image_ep_info("NON_SECURE") =
              (IF bl33_image_ep_info.pc # U64(U32(0)) THEN "bl33_image_ep_info" ELSE "NULL")
        /\ (stub_magic = CLEARED /\ kernel_entry32 = U32(0))
              => bl31_plat_get_next_image_ep_info("NON_SECURE") = "NULL"
        /\ stub_magic # CLEARED
              => bl31_plat_get_next_image_ep_info("NON_SECURE") = "bl33_image_ep_info"

\* The early phase has run with a cleared marker and kernel_entry32 = 0: the
\* non-secure lookup returns NULL.
C11_Witness ==
    /\ EarlyDone
    /\ stub_magic = CLEARED
    /\ kernel_entry32 = U32(0)
    /\ bl31_plat_get_next_image_ep_info("NON_SECURE") = "NULL"

-----------------------------------------------------------------------------
(* Interrupts other than the secure trigger.                               *)

\* What the handler does only when it serves the mailbox.
ProtocolOps == {"mmio_read_32", "mmio_write_32", "read Command", "le32enc",
                "Signature", "Command", "Status", "ERROR", "INFO",
                "rpi4_vc_get_clock", "rpi4_vc_get_pwm", "rpi4_vc_set_pwm",
                "rpi4_vc_set_clock"}

\* The run of the handler that this step takes is for another interrupt id.
OtherIdRun ==
    /\ generic_mb_interrupt_handler
    /\ plat_ic_get_interrupt_id(irq_line) # SECURE_TRIGGER

\* C12: an invocation whose acknowledged id is not the secure trigger does
\* not read or write the mailbox status register, does not read or write
\* either region and issues no co-processor RPC; the register, both regions
\* and the co-processor's record are unchanged; all it does is acknowledge,
\* flush the console and end the interrupt.
C12_OtherIdFrame ==
    [][OtherIdRun =>
          /\ mbox' = mbox
          /\ pcc' = pcc
          /\ vc_calls' = vc_calls
          /\ \A i \in 1..Len(calls') : calls'[i].op \notin ProtocolOps
          /\ Len(calls') = 3
          /\ calls'[1].op = "plat_ic_acknowledge_interrupt"
          /\ calls'[2].op = "console_flush"
          /\ calls'[3].op = "plat_ic_end_of_interrupt"]_vars

\* The handler has returned from interrupt 33 while the status register
\* still shows both region requests and the first region still holds a
\* write request.
C12_Witness ==
    /\ Returned
    /\ AckIrq = 33
    /\ mbox = <<48, 0, 0, 0>>
    /\ pcc[PCC0].Command = 1
    /\ pcc[PCC1].Status = 0

-----------------------------------------------------------------------------
(* The status register.                                                    *)

\* The run of the handler that this step takes is for the secure trigger.
SecureStep ==
    /\ generic_mb_interrupt_handler
    /\ plat_ic_get_interrupt_id(irq_line) = SECURE_TRIGGER

\* Region accesses, log lines that print a region, and co-processor RPCs.
RegionOrRpcOps == {"read Command", "le32enc", "Signature", "Command", "Status",
                   "ERROR", "rpi4_vc_get_clock", "rpi4_vc_get_pwm",
                   "rpi4_vc_set_pwm", "rpi4_vc_set_clock"}

\* C13: a secure-trigger invocation reads the status register once, writes
\* the value it read back once, directly after the read and before every
\* region access and every RPC; the three request bits are decided, and the
\* fan duty taken, from the value read and not from a second read.
C13_ReadOnceWriteBack ==
    [][SecureStep =>
          LET c == calls'
              rd == {i \in 1..Len(c) : c[i].op = "mmio_read_32" /\ c[i].arg = MBOX_REG}
              wr == {i \in 1..Len(c) : c[i].op = "mmio_write_32"}
              Did(op) == \E i \in 1..Len(c) : c[i].op = op
          IN  /\ rd = {3}
              /\ wr = {4}
              /\ c[3].val = mbox
              /\ c[4].arg = MBOX_REG
              /\ c[4].val = mbox
              /\ \A i \in 1..Len(c) : c[i].op \in RegionOrRpcOps => i > 4
              /\ Did("read Command") <=> Bit(mbox, 28)
              /\ Did("rpi4_vc_get_pwm") <=> Bit(mbox, 29)
              /\ Did("rpi4_vc_set_pwm") <=> Bit(mbox, 30)
              /\ Did("rpi4_vc_set_clock") <=> ~Bit(mbox, 30)
              /\ \A i \in 1..Len(c) :
                    c[i].op = "rpi4_vc_set_pwm" => c[i].val = <<0, 0, 0, mbox[4]>>]_vars

\* A secure-trigger run that read 0x70000080 has returned: the register is
\* cleared, and the run served both regions and set the fan to 0x80.
C13_Witness ==
    /\ SecureRun
    /\ StatusRead = <<112, 0, 0, 128>>
    /\ mbox = U32(0)
    /\ Count("mmio_write_32") = 1
    /\ Count("read Command") = 1
    /\ Count("rpi4_vc_get_pwm") = 1
    /\ Count("rpi4_vc_set_pwm") = 1

-----------------------------------------------------------------------------
(* The performance counters of the region at 0x1f0000.                     *)

\* (c * (r div 100,000,000)) div 15 with the product cut to 32 bits
\* (r div 10^8 taken as (r div 10^4) div 10^4, which is the same number).
Delivered(c, r) ==
    DivNat(SubSeq(MulWide(c, DivNat(DivNat(r, 10000), 10000)), 5, 8), 15)

\* The payload a run leaves for counter value c and clock rate r.
Counters(c, r) == le32enc(c) \o le32enc(Delivered(c, r))

\* What a run that served a read request obtained and stored.
ServedRead(c) ==
    LET perf == {i \in 1..Len(c) : c[i].op = "mmio_read_32" /\ c[i].arg = PERF_REG}
        clk == {i \in 1..Len(c) : c[i].op = "rpi4_vc_get_clock"}
    IN  /\ Cardinality(perf) = 1
        /\ Cardinality(clk) = 1
        /\ \A i \in perf, j \in clk :
              /\ i < j
              /\ pcc'[PCC0].ComSpace = Counters(c[i].val, c[j].val)
              /\ SubSeq(pcc'[PCC0].ComSpace, 1, 4) = Rev(c[i].val)

\* C14 as stated: with bit 27 of the status value set and the command of
\* the channel-0 region 0, the run reads the performance counter, issues
\* one get-clock RPC and leaves both counters in the payload.
C14_AsStated ==
    [][(SecureStep /\ Bit(mbox, 27) /\ pcc[PCC0].Command = 0) => ServedRead(calls')]_vars

\* C14 amended: the request bit of the channel-0 region is bit 28
\* (0x10000000).  With it set and the region's command 0 the run reads the
\* performance counter c, obtains the clock rate r with one get-clock RPC
\* and returns with payload bytes 0..3 = c little-endian and bytes 4..7 =
\* ((c * (r div 100,000,000)) mod 2^32) div 15 little-endian, the final idle
\* reset leaving them intact; with bit 28 clear, bit 27 set or not, it
\* neither reads the counter nor touches the payload.
C14_Bit28Counters ==
    [][SecureStep =>
          /\ (Bit(mbox, 28) /\ pcc[PCC0].Command = 0) => ServedRead(calls')
          /\ ~Bit(mbox, 28) =>
                /\ pcc'[PCC0].ComSpace = pcc[PCC0].ComSpace
                /\ \A i \in 1..Len(calls') :
                      calls'[i].op \notin {"rpi4_vc_get_clock", "le32enc", "read Command"}
          /\ IsIdle(PCC0, SIG0)']_vars

\* A run for status 0x100005DC read the counter 0xFFFFFFFF and the rate
\* 1,500,000,000: the payload is FF FF FF FF 10 11 11 11, that is
\* 0xFFFFFFFF and ((0xFFFFFFFF * 15) mod 2^32) div 15 = 0x11111110.
C14_Witness ==
    /\ SecureRun
    /\ StatusRead = <<16, 0, 5, 220>>
    /\ Count("rpi4_vc_get_clock") = 1
    /\ The("rpi4_vc_get_clock").val = U32(1500000000)
    /\ pcc[PCC0].ComSpace = <<255, 255, 255, 255, 16, 17, 17, 17>>
    /\ IsIdle(PCC0, SIG0)

-----------------------------------------------------------------------------
(* Write requests.                                                         *)

\* The run logged the region as it found it.
LoggedRegion(c, region, found) ==
    \E i \in 1..Len(c) : c[i] = Ev("ERROR", region, found)

RpcCount(c, rpc) == Cardinality({i \in 1..Len(c) : c[i].op = rpc})

\* C15 as stated: a request for a region whose command is nonzero causes no
\* RPC for that region (no get-clock for channel 0, no get-pwm for channel
\* 1), leaves its payload alone and resets the region to the idle triple.
C15_AsStated ==
    [][SecureStep =>
          /\ (Bit(mbox, 28) /\ pcc[PCC0].Command # 0) =>
                /\ RpcCount(calls', "rpi4_vc_get_clock") = 0
                /\ pcc'[PCC0].ComSpace = pcc[PCC0].ComSpace
                /\ IsIdle(PCC0, SIG0)'
          /\ (Bit(mbox, 29) /\ pcc[PCC1].Command # 0) =>
                /\ RpcCount(calls', "rpi4_vc_get_pwm") = 0
                /\ pcc'[PCC1].ComSpace = pcc[PCC1].ComSpace
                /\ IsIdle(PCC1, SIG1)']_vars

\* C15 amended: for channel 0 (bit 28) a nonzero command is logged with the
\* region as found, causes no get-clock and no counter read, leaves the
\* payload alone and the region is reset to the idle triple.  For channel 1
\* (bit 29) the command is not looked at: every request, read or write,
\* issues exactly one get-pwm RPC, logs the region as found, leaves the
\* payload alone and resets the region to the idle triple; without bit 29
\* no get-pwm is issued.
C15_WriteRequests ==
    [][SecureStep =>
          /\ (Bit(mbox, 28) /\ pcc[PCC0].Command # 0) =>
                /\ RpcCount(calls', "rpi4_vc_get_clock") = 0
                /\ \A i \in 1..Len(calls') :
                      ~(calls'[i].op = "mmio_read_32" /\ calls'[i].arg = PERF_REG)
                /\ LoggedRegion(calls', PCC0, pcc[PCC0])
                /\ pcc'[PCC0].ComSpace = pcc[PCC0].ComSpace
                /\ IsIdle(PCC0, SIG0)'
          /\ Bit(mbox, 29) =>
                /\ RpcCount(calls', "rpi4_vc_get_pwm") = 1
                /\ LoggedRegion(calls', PCC1, pcc[PCC1])
                /\ \A i \in 1..Len(calls') :
                      ~(calls'[i].op = "read Command" /\ calls'[i].arg = PCC1)
                /\ pcc'[PCC1].ComSpace = pcc[PCC1].ComSpace
                /\ IsIdle(PCC1, SIG1)'
          /\ ~Bit(mbox, 29) => RpcCount(calls', "rpi4_vc_get_pwm") = 0]_vars

\* A run for status 0x30000000 that found a write request (command 1) in
\* both regions has returned: no get-clock, one get-pwm, both payloads as
\* they were, both regions idle.
C15_Witness ==
    /\ SecureRun
    /\ StatusRead = <<48, 0, 0, 0>>
    /\ \E i \in Events("ERROR") : calls[i].arg = PCC0 /\ calls[i].val.Command = 1
    /\ \E i \in Events("ERROR") : calls[i].arg = PCC1 /\ calls[i].val.Command = 1
    /\ Count("rpi4_vc_get_clock") = 0
    /\ Count("rpi4_vc_get_pwm") = 1
    /\ pcc[PCC0].ComSpace = ComA
    /\ pcc[PCC1].ComSpace = ComA
    /\ IsIdle(PCC0, SIG0)
    /\ IsIdle(PCC1, SIG1)

-----------------------------------------------------------------------------
(* Order of the steps of one invocation.                                   *)

At(op, arg) == {i \in 1..Len(calls) : calls[i].op = op /\ calls[i].arg = arg}

\* The position of the first such event of the run.
First(op, arg) == CHOOSE i \in At(op, arg) : \A j \in At(op, arg) : i <= j

\* The position of the fan or clock RPC of the run.
FanOrClockAt == CHOOSE i \in Events("rpi4_vc_set_pwm") \cup Events("rpi4_vc_set_clock") : TRUE

\* The run ends with the idle triple for 0x1f0000, the idle triple for
\* 0x1f0080 and the end of interrupt, all after the fan or clock RPC.
EndsWithReIdle ==
    LET n == Len(calls)
    IN  /\ n > 7
        /\ FanOrClockAt < n - 6
        /\ SubSeq(calls, n - 6, n - 1) =
              <<Ev("Signature", PCC0, SIG0), Ev("Command", PCC0, 0), Ev("Status", PCC0, 1),
                Ev("Signature", PCC1, SIG1), Ev("Command", PCC1, 0), Ev("Status", PCC1, 1)>>
        /\ calls[n].op = "plat_ic_end_of_interrupt"

\* Both region requests were in the status value the run read.
BothRequested == SecureRun /\ Bit(StatusRead, 28) /\ Bit(StatusRead, 29)

\* C16 as stated: with several request bits set, the channel-1 region
\* (signature 0x50434301) is handled and reset first, then the channel-0
\* region, then the fan-or-clock action, then the re-idle of both regions
\* and the end of interrupt.
C16_AsStated ==
    BothRequested =>
        /\ First("rpi4_vc_get_pwm", 0) < First("Status", PCC1)
        /\ First("Status", PCC1) < First("read Command", PCC0)
        /\ First("read Command", PCC0) < First("Status", PCC0)
        /\ First("Status", PCC0) < FanOrClockAt
        /\ EndsWithReIdle

\* C16 amended: every request bit set in the status value is served in the
\* same invocation, in the order of the code: first the channel-0 region
\* (0x1f0000, signature 0x50434300, bit 28) is handled and reset, then the
\* channel-1 region (0x1f0080, signature 0x50434301, bit 29), then the one
\* fan-or-clock action, and only then the re-idle of both regions and the
\* end of interrupt.
C16_FixedOrder ==
    SecureRun =>
        /\ Cardinality(Events("rpi4_vc_set_pwm") \cup Events("rpi4_vc_set_clock")) = 1
        /\ Bit(StatusRead, 28) =>
              /\ At("read Command", PCC0) # {}
              /\ First("read Command", PCC0) < First("Status", PCC0)
              /\ First("Status", PCC0) < FanOrClockAt
        /\ Bit(StatusRead, 29) =>
              /\ At("rpi4_vc_get_pwm", 0) # {}
              /\ First("rpi4_vc_get_pwm", 0) < First("Status", PCC1)
              /\ First("Status", PCC1) < FanOrClockAt
        /\ BothRequested => First("Status", PCC0) < First("rpi4_vc_get_pwm", 0)
        /\ EndsWithReIdle

\* A run that read 0x380003E8 (both region requests, bit 30 clear) has
\* returned: it reset the region at 0x1f0000 before asking for the PWM
\* value, and issued set-clock (for the clamped 2,200,000,000) after both.
C16_Witness ==
    /\ BothRequested
    /\ StatusRead = <<56, 0, 3, 232>>
    /\ First("Status", PCC0) < First("rpi4_vc_get_pwm", 0)
    /\ First("Status", PCC1) < FanOrClockAt
    /\ The("rpi4_vc_set_clock").val = <<131, 33, 86, 0>>

-----------------------------------------------------------------------------
(* Steps of rpi4_prepare_dtb.                                              *)

\* The calls of a run in which no check ends the function, in order.
AllSteps == <<"fdt_check_header", "fdt_open_into", "dt_add_psci_node",
              "dt_add_psci_cpu_enable_methods", "fdt_add_reserved_memory",
              "fdt_node_offset_by_compatible", "fdt_setprop", "fdt_path_offset",
              "fdt_setprop_string", "fdt_pack", "clean_dcache_range">>

\* The steps whose failure ends the function.
FatalSteps == {"fdt_check_header", "fdt_open_into", "dt_add_psci_node",
               "dt_add_psci_cpu_enable_methods"}

StepNo(call) == CHOOSE k \in 1..Len(AllSteps) : AllSteps[k] = call

\* The names of the calls made, in order.
CallNames == [i \in 1..Len(fdt_calls) |-> fdt_calls[i].call]

\* C17: a failed header check, open-for-edit, add-PSCI-node or
\* add-cpu-enable-methods is the last call of the run (no reserved-memory
\* insertion, property write, pack or flush follows); a failed
\* reserved-memory insertion or pack stops nothing; the cache flush is
\* made at most once, as the last call, in exactly the runs in which the
\* first four steps succeeded.
C17_StepsByFailure ==
    DtbReturned =>
        /\ \A c \in FatalSteps :
              Failed(c) => /\ LastCall = c
                           /\ CallNames = SubSeq(AllSteps, 1, StepNo(c))
        /\ Failed("fdt_add_reserved_memory") => CallNames = AllSteps
        /\ Failed("fdt_pack") => CallNames = AllSteps
        /\ Cardinality(CallsOf("clean_dcache_range")) <= 1
        /\ WasCalled("clean_dcache_range") <=> \A c \in FatalSteps : Succeeded(c)
        /\ WasCalled("clean_dcache_range") <=> fdt_fails \cap FatalSteps = {}
        /\ WasCalled("clean_dcache_range") =>
              /\ LastCall = "clean_dcache_range"
              /\ CallNames = AllSteps

\* A run in which both the reserved-memory insertion and the pack failed
\* has returned after the flush.
C17_Witness ==
    /\ DtbReturned
    /\ Failed("fdt_add_reserved_memory")
    /\ Failed("fdt_pack")
    /\ LastCall = "clean_dcache_range"
    /\ Len(fdt_calls) = 11

-----------------------------------------------------------------------------
(* Translation setup.                                                      *)

\* dtb_ptr32 with its low 21 bits cleared, as a 64-bit value: the low two
\* bytes and the low five bits of the third byte are 0.
WindowBase(ptr) == <<0, 0, 0, 0, ptr[1], (ptr[2] \div 32) * 32, 0, 0>>

\* The regions bl31_plat_arch_setup is to register, in order.
ExpectedRegions ==
    (IF stub_magic = CLEARED
     THEN <<[base_pa |-> WindowBase(dtb_ptr32), base_va |-> WindowBase(dtb_ptr32),
             size |-> <<0, 0, 0, 0, 0, 64, 0, 0>>,
             attr |-> {"MT_MEMORY", "MT_RW", "MT_NS"}]>>
     ELSE <<>>)
    \o <<[base_pa |-> <<0, 0, 0, 0, 0, 0, 0, 0>>, base_va |-> <<0, 0, 0, 0, 0, 0, 0, 0>>,
          size |-> <<0, 0, 0, 0, 0, 0, 16, 0>>,
          attr |-> {"MT_NON_CACHEABLE", "MT_RW", "MT_SECURE"}]>>

\* C18: the translation unit is enabled once, by a step that finds it off
\* and every region registered; it is never disabled and no region is
\* registered after it; on return the first page [0, 4096) is registered
\* non-cacheable, read-write, secure whatever the stub marker is, and the
\* 4 MiB non-secure cacheable window at dtb_ptr32 with its low 21 bits
\* cleared is registered exactly when the stub marker is 0.
C18_ArchSetup ==
    [][/\ ArchEnableMmu => ~mmu_enabled /\ mmap = ExpectedRegions
       /\ mmu_enabled' # mmu_enabled => ArchEnableMmu
       /\ mmu_enabled => mmu_enabled' /\ mmap' = mmap
       /\ pc' \notin ({"early"} \cup ArchSteps) => mmu_enabled' /\ mmap' = ExpectedRegions
       /\ pc' \in ({"early"} \cup ArchSteps) => ~mmu_enabled']_vars

\* bl31_plat_arch_setup has returned for a cleared marker and the pointer
\* 0x2EFF2E00: the window at 0x2EE00000 and the first page are registered
\* and the translation unit is on.
C18_Witness ==
    /\ pc = "dtb_check"
    /\ mmu_enabled
    /\ stub_magic = CLEARED
    /\ dtb_ptr32 = <<46, 255, 46, 0>>
    /\ Len(mmap) = 2
    /\ mmap[1].base_pa = <<0, 0, 0, 0, 46, 224, 0, 0>>
    /\ mmap[2].size = U64(U32(4096))

-----------------------------------------------------------------------------
(* Property writes of rpi4_prepare_dtb.                                    *)

\* The run got past the two PSCI steps.
PastPsci == DtbReturned /\ Succeeded("dt_add_psci_cpu_enable_methods")

\* The one call of that name in the run.
TheCall(call) == fdt_calls[CHOOSE i \in CallsOf(call) : TRUE]

\* The property write follows its lookup directly and takes the offset the
\* lookup returned.
WritesAtLookup(lookup, write) ==
    /\ Cardinality(CallsOf(lookup)) = 1
    /\ Cardinality(CallsOf(write)) = 1
    /\ \A i \in CallsOf(lookup) :
          /\ i < Len(fdt_calls)
          /\ fdt_calls[i + 1].call = write
          /\ fdt_calls[i + 1].arg = fdt_calls[i].ret

\* C19: a run that gets past the PSCI steps issues the "interrupts" write
\* once, with the offset the "arm,gic-400" lookup returned, and the
\* "stdout-path" write once, with the offset the "/chosen" lookup returned;
\* a missing node gives a negative offset, which is passed on; whatever the
\* two writes return, the run goes on to the pack and the flush and logs
\* nothing about them.  A run that does not get past the PSCI steps issues
\* neither write.
C19_UncheckedWrites ==
    /\ PastPsci =>
          /\ WritesAtLookup("fdt_node_offset_by_compatible", "fdt_setprop")
          /\ WritesAtLookup("fdt_path_offset", "fdt_setprop_string")
          /\ ~dtb.has_gic => TheCall("fdt_setprop").arg < 0 /\ TheCall("fdt_setprop").ret < 0
          /\ ~dtb.has_chosen => /\ TheCall("fdt_setprop_string").arg < 0
                                 /\ TheCall("fdt_setprop_string").ret < 0
          /\ dtb.has_gic => TheCall("fdt_setprop").arg >= 0
          /\ dtb.has_chosen => TheCall("fdt_setprop_string").arg >= 0
          /\ WasCalled("fdt_pack")
          /\ LastCall = "clean_dcache_range"
          /\ \A i \in 1..Len(log) :
                log[i].msg \in {"Failed to add reserved memory nodes to DT.",
                                "Failed to pack Device Tree",
                                "Changed device tree to advertise PSCI."}
    /\ (DtbReturned /\ ~Succeeded("dt_add_psci_cpu_enable_methods")) =>
          ~WasCalled("fdt_setprop") /\ ~WasCalled("fdt_setprop_string")

\* A run on a blob with neither node has returned: both writes were issued
\* with a negative offset and failed, and the flush was still made.
C19_Witness ==
    /\ PastPsci
    /\ ~dtb.has_gic
    /\ ~dtb.has_chosen
    /\ TheCall("fdt_setprop").arg < 0
    /\ TheCall("fdt_setprop_string").arg < 0
    /\ TheCall("fdt_setprop_string").ret < 0
    /\ WasCalled("clean_dcache_range")

-----------------------------------------------------------------------------
(* The device-tree window and the working area of rpi4_prepare_dtb.        *)

\* The window has been registered (the marker is 0 and line 193 has run).
WindowMapped == stub_magic = CLEARED /\ pc \notin {"early", "arch_dtb"}

\* C20: with the stub marker 0, the window [base, base + 4 MiB) registered
\* for dtb_ptr32 has base = dtb_ptr32 with the low 21 bits cleared and the
\* upper 32 bits zero, base <= dtb_ptr32 < base + 2 MiB, and
\* dtb_ptr32 + 0x100000 <= base + 4 MiB in 64-bit arithmetic: the 1 MiB
\* that rpi4_prepare_dtb opens the blob into, at rpi4_get_dtb_address(),
\* lies inside the window.
C20_WorkingAreaInWindow ==
    WindowMapped =>
        LET w == mmap[1]
            p == U64(dtb_ptr32)
        IN  /\ w.base_pa = WindowBase(dtb_ptr32)
            /\ SubSeq(w.base_pa, 1, 4) = <<0, 0, 0, 0>>
            /\ w.size = <<0, 0, 0, 0, 0, 64, 0, 0>>
            /\ Le(w.base_pa, p)
            /\ Lt(p, Add(w.base_pa, <<0, 0, 0, 0, 0, 32, 0, 0>>))
            /\ Le(Add(p, <<0, 0, 0, 0, 0, 16, 0, 0>>), RegionEnd(w))
            /\ Lt(w.base_pa, RegionEnd(w))
            /\ rpi4_get_dtb_address = p
            /\ Le(w.base_pa, rpi4_get_dtb_address)
            /\ Le(Add(rpi4_get_dtb_address, U64(U32(1048576))), RegionEnd(w))

\* The window for the pointer 0x001FFFFF, the last byte of a 2 MiB block,
\* is registered: [0, 0x400000), and the working area ends at 0x2FFFFF.
C20_Witness ==
    /\ WindowMapped
    /\ dtb_ptr32 = <<0, 31, 255, 255>>
    /\ mmap[1].base_pa = <<0, 0, 0, 0, 0, 0, 0, 0>>
    /\ RegionEnd(mmap[1]) = <<0, 0, 0, 0, 0, 64, 0, 0>>
    /\ Add(U64(dtb_ptr32), U64(U32(1048576))) = <<0, 0, 0, 0, 0, 47, 255, 255>>

====
